---------------------------- MODULE Spec2Model ----------------------------
(***************************************************************************)
(* Instant-runoff vote counter (countvotes.py).                            *)
(*                                                                         *)
(* The state is the call stack of instant_runoff: one frame per active     *)
(* invocation, the last frame being the running one.  A title (candidate)  *)
(* is a positive integer, a Vote is its preferences list, and the tally    *)
(* dict of a round is its keys in insertion order plus a count per key.    *)
(* Printing (verbose) changes no state and is left out.                    *)
(***************************************************************************)
EXTENDS Integers, Sequences, FiniteSets, TLC

\* Largest number of titles (result columns) of an election.
NumCands == 4
\* Largest number of votes (CSV lines after the header).
MaxVotes == 5
\* Largest number of titles and votes together.
MaxSize == 8
\* Largest recursion_limit of the top-level call.
MaxLimit == 2
\* Elections whose lines may give two titles the same rank: titles, votes,
\* and ranks in all.
MaxTiedCands == 3
MaxTiedVotes == 3
MaxTiedSize == 6
\* Largest number of votes of the five-title elections.
MaxPoolVotes == 4
\* Largest number of votes of the elections run to their end under fairness.
MaxLiveVotes == 5

\* Python's None where a title is expected (first_choice, sub_result).
None == 0

\* What an invocation yields: a results list, None, or the exit of line 166.
Some(l) == [kind |-> "list", list |-> l]
NoResult == [kind |-> "None", list |-> <<>>]
Exit == [kind |-> "exit", list |-> <<>>]

VARIABLES
    titles,     \* the titles of the result columns, in column order
    lines,      \* per vote, the ranks of line[i:j+1], in column order
    stack,      \* the frames of the active invocations of instant_runoff
    reckless,   \* the reckless argument of the top-level call
    exited,     \* TRUE once exit() was called (line 166)
    heap        \* the list objects that preferences attributes are bound to

vars == <<titles, lines, stack, reckless, exited, heap>>

---------------------------------------------------------------------------
(* Vote *)

\* A sort that puts a column before the earlier columns of its rank.
RECURSIVE InsertByRankBefore(_, _, _)
InsertByRankBefore(sorted, i, ranks) ==
    IF sorted = <<>> THEN <<i>>
    ELSE IF ranks[Head(sorted)] < ranks[i]
         THEN <<Head(sorted)>> \o InsertByRankBefore(Tail(sorted), i, ranks)
         ELSE <<i>> \o sorted

\* list.sort(key=...) on the column indices: stable, ascending by rank.
RECURSIVE InsertByRank(_, _, _)
InsertByRank(sorted, i, ranks) ==
    IF sorted = <<>> THEN <<i>>
    ELSE IF ranks[Head(sorted)] <= ranks[i]
         THEN <<Head(sorted)>> \o InsertByRank(Tail(sorted), i, ranks)
         ELSE <<i>> \o sorted

RECURSIVE SortByRank(_, _)
SortByRank(k, ranks) ==
    IF k = 0 THEN <<>> ELSE InsertByRank(SortByRank(k - 1, ranks), k, ranks)

\* Vote.__init__: the titles in ascending order of their ranks.
VoteInit(ts, ranks) ==
    LET decorated_titles == SortByRank(Len(ts), ranks)
    IN  [k \in 1..Len(ts) |-> ts[decorated_titles[k]]]

\* A remove that leaves the preferences as they are.
removeNothing(preferences, title) == preferences

\* Vote.remove: the preferences without the title.
remove(preferences, title) == SelectSeq(preferences, LAMBDA t : t # title)

\* Vote.first_choice
first_choice(preferences) ==
    IF Len(preferences) >= 1 THEN preferences[1] ELSE None

\* Vote.dup: a new Vote holding the same preferences.
dup(preferences) == preferences

\* The votes list built by lines 200-202.
ReadVotes(ts, ls) == [v \in 1..Len(ls) |-> VoteInit(ts, ls[v])]

\* The Vote objects and their lists.  A list object is an index of heap; a
\* Vote is the index its preferences attribute is bound to.

\* A remove that filters the list the attribute is bound to in place.
BindSame(h, p, contents) ==
    [heap |-> [h EXCEPT ![p] = contents], pref |-> p]

\* self.preferences = list(...) of line 53: the attribute that was bound to
\* list p is bound to a new list.
BindNew(h, p, contents) ==
    [heap |-> Append(h, contents), pref |-> Len(h) + 1]

\* vote.remove(title) for the first k of the votes bound to prefs, in order
\* (lines 169-170; lines 139-141, where vote_prime = vote.dup() is bound to
\* the list of vote until its remove).
RECURSIVE RemoveEach(_, _, _, _)
RemoveEach(h, prefs, title, k) ==
    IF k = 0 THEN [heap |-> h, prefs |-> <<>>]
    ELSE CHOOSE after \in
           UNION {{[heap |-> b.heap, prefs |-> Append(r.prefs, b.pref)] :
                     b \in {BindNew(r.heap, dup(prefs[k]),
                                    remove(r.heap[prefs[k]], title))}} :
                  r \in {RemoveEach(h, prefs, title, k - 1)}} : TRUE

\* The preferences of the votes bound to prefs.
Deref(h, prefs) == [v \in 1..Len(prefs) |-> h[prefs[v]]]

---------------------------------------------------------------------------
(* One round of instant_runoff, as functions of the votes *)

\* Lines 94-96: one more vote for the favorite.  The tally dict is the
\* sequence of its items, in insertion order.
Count(tally, favorite) ==
    IF \E i \in 1..Len(tally) : tally[i].k = favorite
    THEN [i \in 1..Len(tally) |->
            IF tally[i].k = favorite
            THEN [k |-> favorite, v |-> tally[i].v + 1] ELSE tally[i]]
    ELSE Append(tally, [k |-> favorite, v |-> 1])

\* Lines 91-96, from the tally so far.
RECURSIVE TallyFrom(_, _)
TallyFrom(votes, tally) ==
    IF votes = <<>> THEN tally
    ELSE LET favorite == first_choice(Head(votes))
         IN  TallyFrom(Tail(votes),
                       IF favorite # None THEN Count(tally, favorite)
                       ELSE tally)

\* tally after lines 90-96.
Tally(votes) == TallyFrom(votes, <<>>)

\* The keys of a sequence of tally items.
Keys(items) == [i \in 1..Len(items) |-> items[i].k]

\* A threshold that lacks the + 1.
ThresholdHalf(n) == n \div 2

\* The majority threshold of line 104.
Threshold(n) == (n \div 2) + 1

\* Line 104 with > for >=.
MajorityKeysAbove(tally, n) ==
    Keys(SelectSeq(tally, LAMBDA it : it.v > Threshold(n)))

\* The keys with a majority, in tally order (lines 103-104).
MajorityKeys(tally, n) ==
    Keys(SelectSeq(tally, LAMBDA it : it.v >= Threshold(n)))

\* The loop of lines 111-114 without the comparison of line 113: the count
\* of the last key.
LowestLast(tally, lowest) ==
    IF tally = <<>> THEN lowest ELSE tally[Len(tally)].v

\* lowest_vote_count after the loop of lines 111-114.
RECURSIVE LowestFrom(_, _)
LowestFrom(tally, lowest) ==
    IF tally = <<>> THEN lowest
    ELSE LowestFrom(Tail(tally),
                    IF Head(tally).v < lowest THEN Head(tally).v ELSE lowest)

lowest_vote_count(tally, n) == LowestFrom(tally, n)

\* Line 116 with >= for ==.
LosersAtLeast(tally, n) ==
    LET lowest == lowest_vote_count(tally, n)
    IN  Keys(SelectSeq(tally, LAMBDA it : it.v >= lowest))

\* losers after the loop of lines 115-118.
Losers(tally, n) ==
    LET lowest == lowest_vote_count(tally, n)
    IN  Keys(SelectSeq(tally, LAMBDA it : it.v = lowest))

\* The loser of lines 122, 126 and 156.
FirstLoser(losers) == losers[1]

\* results.append(k) instead.
InsertLast(results, k) == Append(results, k)

\* results.insert(0, k) of lines 107 and 171.
Insert0(results, k) == <<k>> \o results

\* The loop of lines 169-170 from the second vote on.
RemoveAllButFirst(votes, loser) ==
    [i \in 1..Len(votes) |->
       IF i = 1 THEN votes[i] ELSE remove(votes[i], loser)]

\* The votes with the loser removed from each (lines 169-170).
RemoveAll(votes, loser) ==
    [i \in 1..Len(votes) |-> remove(votes[i], loser)]

\* votes_prime of lines 138-142: a dup of each vote, this_loser removed.
votes_prime(votes, this_loser) ==
    [i \in 1..Len(votes) |-> remove(dup(votes[i]), this_loser)]

\* The chain with the recursion limit tested before reckless.
BranchLimitFirst(len, reck, recursion_limit) ==
    IF len = 1 THEN "one"
    ELSE IF len > 1 /\ recursion_limit <= 0 THEN "limit"
    ELSE IF len > 1 /\ reck THEN "reckless"
    ELSE IF len > 1 /\ recursion_limit > 0 THEN "recurse"
    ELSE "never"

\* The chain with recursion_limit < 0 at line 129.
BranchBelowZero(len, reck, recursion_limit) ==
    IF len = 1 THEN "one"
    ELSE IF len > 1 /\ reck THEN "reckless"
    ELSE IF len > 1 /\ recursion_limit < 0 THEN "limit"
    ELSE IF len > 1 /\ recursion_limit > 0 THEN "recurse"
    ELSE "never"

\* The branch the if/elif chain of lines 121-166 takes.
Branch(len, reck, recursion_limit) ==
    IF len = 1 THEN "one"
    ELSE IF len > 1 /\ reck THEN "reckless"
    ELSE IF len > 1 /\ recursion_limit <= 0 THEN "limit"
    ELSE IF len > 1 /\ recursion_limit > 0 THEN "recurse"
    ELSE "never"

\* A sub-election called with the recursion_limit of its caller.
SubLimitSame(recursion_limit) == recursion_limit

\* The recursion_limit argument of line 144.
SubLimit(recursion_limit) == recursion_limit - 1

\* this_sub_result of lines 145-148.
ThisSubResult(this_sub_results) ==
    IF this_sub_results.kind = "list" /\ Len(this_sub_results.list) >= 1
    THEN this_sub_results.list[1] ELSE None

\* Whether lines 151-153 leave the for loop.
Breaks(sub_result, this_sub_result) ==
    sub_result # None /\ sub_result # this_sub_result

\* Lines 149-150 without the elif of lines 151-153.
KeepFirstSubResult(sub_result, this_sub_result) ==
    IF sub_result = None THEN this_sub_result ELSE sub_result

\* sub_result after lines 149-153.
NextSubResult(sub_result, this_sub_result) ==
    IF sub_result = None THEN this_sub_result
    ELSE IF sub_result # this_sub_result THEN None
    ELSE sub_result

---------------------------------------------------------------------------
(* The inputs *)

RECURSIVE Perms(_)
Perms(S) ==
    IF S = {} THEN {<<>>}
    ELSE UNION {{<<x>> \o p : p \in Perms(S \ {x})} : x \in S}

\* Lines that rank the titles 1..L without repeating a rank.  The titles
\* are numbered in the order of the first vote's preferences.
RankedLines(L, len) ==
    {ls \in [1..len -> Perms(1..L)] : len >= 1 => ls[1] = [i \in 1..L |-> i]}

\* Lines whose ranks may repeat.
TiedLines(L, len) == [1..len -> [1..L -> 1..L]]

\* The lines of the five-title elections: the ranks of the preferences
\* <<1,2,3,4,5>>, <<2,1,5,4,3>> and <<4,1,2,3,5>>.
PoolRanks == <<<<1, 2, 3, 4, 5>>, <<2, 1, 5, 4, 3>>, <<2, 3, 4, 1, 5>>>>
PoolLines(len) == [1..len -> {PoolRanks[i] : i \in DOMAIN PoolRanks}]

\* The values of the recursion_limit argument of the top-level call.
Limits == -1..MaxLimit

\* The locals of an invocation as it starts (lines 80-82) and reaches the
\* majority check of its first round (lines 90-96).  Beside the
\* locals of the code a frame records, as history of the invocation:
\*   eliminated   the losers removed so far, in order of elimination
\*   sub_winners  this_sub_result of each sub-election of the running loop
\*   failed_sub   some sub-election of this invocation returned None
\*   agreed       the winners all sub-elections of some round agreed on
\*   shared_min   some round's tally had two or more keys with the lowest count
\* votes holds the preferences of the votes as the invocation last read
\* them, prefs the lists they are bound to, base the number of lists there
\* were when the invocation was called.
Frame(votes, recursion_limit, reck) ==
    [votes |-> votes, n |-> Len(votes), round |-> 1, results |-> <<>>,
     tally |-> Tally(votes),
     recursion_limit |-> recursion_limit, reckless |-> reck, pc |-> "round",
     losers |-> <<>>, idx |-> 0, sub_result |-> None, ret |-> NoResult,
     eliminated |-> <<>>, sub_winners |-> <<>>, failed_sub |-> FALSE,
     agreed |-> {}, shared_min |-> FALSE, prefs |-> <<>>, base |-> 0]

Start(ts, ls, lim, r) ==
    /\ titles = ts
    /\ lines = ls
    /\ reckless = r
    /\ heap = ReadVotes(ts, ls)
    /\ stack = <<[Frame(Deref(heap, [v \in 1..Len(ls) |-> v]), lim, r)
                   EXCEPT !.prefs = [v \in 1..Len(ls) |-> v]]>>
    /\ exited = FALSE

InitRanked ==
    \E L \in 0..NumCands, len \in 0..MaxVotes :
      /\ L + len <= MaxSize
      /\ \E ls \in RankedLines(L, len), lim \in Limits, r \in BOOLEAN :
           Start([i \in 1..L |-> i], ls, lim, r)

InitTied ==
    \E L \in 1..MaxTiedCands, len \in 1..MaxTiedVotes :
      /\ L * len <= MaxTiedSize
      /\ \E ls \in TiedLines(L, len), lim \in Limits, r \in BOOLEAN :
           Start([i \in 1..L |-> i], ls, lim, r)

InitPool ==
    \E len \in 1..MaxPoolVotes :
      \E ls \in PoolLines(len), lim \in Limits, r \in BOOLEAN :
        Start([i \in 1..Len(PoolRanks[1]) |-> i], ls, lim, r)

Init == InitRanked \/ InitTied \/ InitPool

---------------------------------------------------------------------------
(* The steps of the running invocation *)

Top == stack[Len(stack)]
SetTop(f) == [stack EXCEPT ![Len(stack)] = f]
AtRound == ~exited /\ Top.pc = "round"
SharedMin(f) == f.shared_min \/ Len(Losers(f.tally, f.n)) >= 2

\* Lines 102-108: a key of the tally has a majority; it is returned first.
Majority ==
    /\ AtRound
    /\ MajorityKeys(Top.tally, Top.n) # <<>>
    /\ LET k == Head(MajorityKeys(Top.tally, Top.n))
           results == Insert0(Top.results, k)
       IN  stack' = SetTop([Top EXCEPT !.results = results, !.pc = "done",
                                       !.ret = Some(results),
                                       !.shared_min = SharedMin(Top)])
    /\ UNCHANGED <<titles, lines, reckless, exited, heap>>

NoMajority == AtRound /\ MajorityKeys(Top.tally, Top.n) = <<>>
TopBranch ==
    Branch(Len(Losers(Top.tally, Top.n)), Top.reckless, Top.recursion_limit)

\* Lines 168-174: the loser leaves every vote and is put first in results;
\* the next round starts and takes its tally (lines 90-96).
Eliminated(f, loser) ==
    [f EXCEPT !.votes = RemoveAll(f.votes, loser),
              !.tally = Tally(RemoveAll(f.votes, loser)),
              !.results = Insert0(f.results, loser),
              !.round = f.round + 1,
              !.pc = "round", !.losers = <<>>, !.idx = 0, !.sub_result = None,
              !.eliminated = Append(f.eliminated, loser),
              !.sub_winners = <<>>,
              !.shared_min = SharedMin(f)]

\* The loop of lines 169-170 on the lists of the running invocation.
Removed(loser) == RemoveEach(heap, Top.prefs, loser, Len(Top.prefs))

\* Lines 168-174 in the running invocation.
Eliminate(loser) ==
    \E l \in {loser} :
      \E r \in {Removed(l)} :
        /\ heap' = r.heap
        /\ stack' = SetTop([Eliminated(Top, l) EXCEPT !.prefs = r.prefs])

\* Lines 121-122.
EliminateSingle ==
    /\ NoMajority
    /\ TopBranch = "one"
    /\ Eliminate(FirstLoser(Losers(Top.tally, Top.n)))
    /\ UNCHANGED <<titles, lines, reckless, exited>>

\* Lines 125-126.
EliminateReckless ==
    /\ NoMajority
    /\ TopBranch = "reckless"
    /\ Eliminate(FirstLoser(Losers(Top.tally, Top.n)))
    /\ UNCHANGED <<titles, lines, reckless, exited>>

\* Lines 129-131.
OutOfRecursion ==
    /\ NoMajority
    /\ TopBranch = "limit"
    /\ stack' = SetTop([Top EXCEPT !.losers = Losers(Top.tally, Top.n),
                                   !.pc = "done", !.ret = NoResult,
                                   !.shared_min = TRUE])
    /\ UNCHANGED <<titles, lines, reckless, exited, heap>>

\* Lines 134-136: the for loop over losers starts.
StartTieBreak ==
    /\ NoMajority
    /\ TopBranch = "recurse"
    /\ stack' = SetTop([Top EXCEPT !.losers = Losers(Top.tally, Top.n),
                                   !.idx = 1, !.sub_result = None,
                                   !.pc = "loop", !.sub_winners = <<>>,
                                   !.shared_min = TRUE])
    /\ UNCHANGED <<titles, lines, reckless, exited, heap>>

\* Lines 137-144: the sub-election of losers[idx] is called.
CallSub ==
    /\ ~exited
    /\ Top.pc = "loop"
    /\ \E r \in {Removed(Top.losers[Top.idx])} :
         /\ heap' = r.heap
         /\ stack' = Append(stack,
                            [Frame(votes_prime(Top.votes, Top.losers[Top.idx]),
                                   SubLimit(Top.recursion_limit), Top.reckless)
                             EXCEPT !.prefs = r.prefs, !.base = Len(heap)])
    /\ UNCHANGED <<titles, lines, reckless, exited>>

\* Lines 145-153: the sub-election returned; its winner is compared.  The
\* lists made for it are no longer reachable (votes_prime is rebound at
\* line 138 or goes out of scope); the caller goes on with its own votes.
ReturnSub ==
    /\ ~exited
    /\ Len(stack) > 1
    /\ Top.pc = "done"
    /\ LET this_sub_results == Top.ret
           caller == stack[Len(stack) - 1]
           this_sub_result == ThisSubResult(this_sub_results)
           leave == \/ Breaks(caller.sub_result, this_sub_result)
                    \/ caller.idx = Len(caller.losers)
       IN  stack' = [SubSeq(stack, 1, Len(stack) - 1)
                       EXCEPT ![Len(stack) - 1] =
                         [caller EXCEPT
                            !.votes = Deref(heap, caller.prefs),
                            !.sub_result =
                                NextSubResult(caller.sub_result, this_sub_result),
                            !.idx = IF leave THEN caller.idx ELSE caller.idx + 1,
                            !.pc = IF leave THEN "after" ELSE "loop",
                            !.sub_winners =
                                Append(caller.sub_winners, this_sub_result),
                            !.failed_sub = \/ caller.failed_sub
                                           \/ this_sub_results.kind = "None"]]
    /\ heap' = SubSeq(heap, 1, Top.base)
    /\ UNCHANGED <<titles, lines, reckless, exited>>

\* All sub-elections of the finished loop ran, succeeded and named one winner.
Unanimous(f) ==
    /\ Len(f.sub_winners) = Len(f.losers)
    /\ \A i \in 1..Len(f.sub_winners) :
         f.sub_winners[i] # None /\ f.sub_winners[i] = f.sub_winners[1]

\* Lines 155-156.
TieResolved ==
    /\ ~exited
    /\ Top.pc = "after"
    /\ Top.sub_result # None
    /\ \E r \in {Removed(FirstLoser(Top.losers))} :
         /\ heap' = r.heap
         /\ stack' = SetTop([Eliminated(Top, FirstLoser(Top.losers)) EXCEPT
                               !.prefs = r.prefs,
                               !.agreed = IF Unanimous(Top)
                                          THEN Top.agreed \cup {Top.sub_result}
                                          ELSE Top.agreed])
    /\ UNCHANGED <<titles, lines, reckless, exited>>

\* Lines 157-162.
TieFailed ==
    /\ ~exited
    /\ Top.pc = "after"
    /\ Top.sub_result = None
    /\ stack' = SetTop([Top EXCEPT !.pc = "done", !.ret = NoResult])
    /\ UNCHANGED <<titles, lines, reckless, exited, heap>>

\* Lines 164-166: no branch above is taken; the process exits.
ShouldNeverHappen ==
    /\ NoMajority
    /\ TopBranch = "never"
    /\ exited' = TRUE
    /\ UNCHANGED <<titles, lines, stack, reckless, heap>>

Next ==
    \/ Majority
    \/ EliminateSingle
    \/ EliminateReckless
    \/ OutOfRecursion
    \/ StartTieBreak
    \/ CallSub
    \/ ReturnSub
    \/ TieResolved
    \/ TieFailed
    \/ ShouldNeverHappen

Spec == Init /\ [][Next]_vars

\* The elections of up to MaxLiveVotes votes on three titles, each vote one
\* of the preferences <<1,2,3>>, <<2,1,3>> and <<3,1,2>>, the first vote
\* the first of them.
LiveRanks == <<<<1, 2, 3>>, <<2, 1, 3>>, <<2, 3, 1>>>>
LiveInit ==
    \E len \in 0..MaxLiveVotes :
      \E ls \in [1..len -> {LiveRanks[i] : i \in DOMAIN LiveRanks}],
         lim \in Limits, r \in BOOLEAN :
        /\ len >= 1 => ls[1] = LiveRanks[1]
        /\ Start([i \in 1..Len(LiveRanks[1]) |-> i], ls, lim, r)

\* The interpreter runs the program on until it returns or exits.
LiveSpec == LiveInit /\ [][Next]_vars /\ WF_vars(Next)

---------------------------------------------------------------------------
(* instant_runoff as a function of its arguments *)

\* sub_result when the process exited inside a sub-election.
ExitMark == -1

RECURSIVE RunFrom(_, _, _, _, _)
RECURSIVE TieBreak(_, _, _, _, _, _)

\* The while loop of lines 89-177 from the top of a round on.
RunFrom(votes, n, results, recursion_limit, reck) ==
    LET tally == Tally(votes)
        maj == MajorityKeys(tally, n)
        losers == Losers(tally, n)
        branch == Branch(Len(losers), reck, recursion_limit)
        go(loser) == RunFrom(RemoveAll(votes, loser), n,
                             Insert0(results, loser), recursion_limit, reck)
    IN  IF maj # <<>> THEN Some(Insert0(results, Head(maj)))
        ELSE IF branch = "one" THEN go(FirstLoser(losers))
        ELSE IF branch = "reckless" THEN go(FirstLoser(losers))
        ELSE IF branch = "limit" THEN NoResult
        ELSE IF branch = "recurse"
        THEN LET sub_result ==
                     TieBreak(votes, losers, 1, None, recursion_limit, reck)
             IN  IF sub_result = ExitMark THEN Exit
                 ELSE IF sub_result # None THEN go(FirstLoser(losers))
                 ELSE NoResult
        ELSE Exit

\* sub_result after the for loop of lines 137-153, entered at losers[idx].
TieBreak(votes, losers, idx, sub_result, recursion_limit, reck) ==
    IF idx > Len(losers) THEN sub_result
    ELSE LET vp == votes_prime(votes, losers[idx])
             this_sub_results ==
                 RunFrom(vp, Len(vp), <<>>, SubLimit(recursion_limit), reck)
             this_sub_result == ThisSubResult(this_sub_results)
         IN  IF this_sub_results.kind = "exit" THEN ExitMark
             ELSE IF Breaks(sub_result, this_sub_result)
             THEN NextSubResult(sub_result, this_sub_result)
             ELSE TieBreak(votes, losers, idx + 1,
                           NextSubResult(sub_result, this_sub_result),
                           recursion_limit, reck)

\* instant_runoff(votes, recursion_limit=..., reckless=...), lines 78-177.
instant_runoff(votes, recursion_limit, reck) ==
    RunFrom(votes, Len(votes), <<>>, recursion_limit, reck)

\* The top-level call is over.
Finished == exited \/ (Len(stack) = 1 /\ stack[1].pc = "done")

\* What the top-level call yielded.
Outcome == IF exited THEN Exit ELSE stack[1].ret

\* The steps above and the function agree on every finished run.
StepsAgreeWithFunction ==
    Finished =>
        Outcome = instant_runoff(ReadVotes(titles, lines),
                                 stack[1].recursion_limit, reckless)

---------------------------------------------------------------------------
(* The claims *)

\* C1: in deterministic mode an invocation in which the sub-election of a
\* tied loser returned None returns None itself: a failed sub-election is
\* never ignored.
C1_FailedSubElectionFailsElection ==
    \A i \in DOMAIN stack :
        (stack[i].pc = "done" /\ stack[i].failed_sub) => stack[i].ret = NoResult

\* What the invocation of frame f would return from its running round on if
\* the round eliminated the loser.
RunAfterEliminating(f, loser) ==
    RunFrom(RemoveAll(f.votes, loser), f.n, Insert0(f.results, loser),
            f.recursion_limit, reckless)

\* C2: when the sub-elections of all tied losers of a round succeed and name
\* the same winner W, the invocation returns a list whose winner is W, and
\* so it would whichever tied loser the round eliminated.
C2_AgreedWinnerWins ==
    /\ \A i \in DOMAIN stack :
         stack[i].pc = "done" =>
           \A w \in stack[i].agreed :
             stack[i].ret.kind = "list" /\ stack[i].ret.list[1] = w
    /\ (~exited /\ Top.pc = "after" /\ Unanimous(Top)) =>
         \A j \in 1..Len(Top.losers) :
           LET r == RunAfterEliminating(Top, Top.losers[j])
           IN  r.kind = "list" /\ r.list[1] = Top.sub_result

\* The number of ballots handed to the invocation of frame i.
BallotsPassed(i) ==
    IF i = 1 THEN Len(lines) ELSE Len(stack[i - 1].votes)

\* The number of first-choice votes of title k among the votes.
FirstChoices(votes, k) ==
    Cardinality({v \in 1..Len(votes) : Len(votes[v]) >= 1 /\ votes[v][1] = k})

\* The titles found on the votes.
TitlesOn(votes) == UNION {{votes[v][j] : j \in 1..Len(votes[v])} :
                          v \in 1..Len(votes)}

\* C3: the first element of a returned list has, in the final round, at
\* least n // 2 + 1 first-choice votes, n being the number of ballots handed
\* to the invocation; in no round do two titles reach that threshold.
C3_WinnerHasMajority ==
    \A i \in DOMAIN stack :
      LET f == stack[i]
          needed == (BallotsPassed(i) \div 2) + 1
      IN  /\ Cardinality({k \in TitlesOn(f.votes) :
                            FirstChoices(f.votes, k) >= needed}) <= 1
          /\ (f.pc = "done" /\ f.ret.kind = "list") =>
               /\ Len(f.ret.list) >= 1
               /\ FirstChoices(f.votes, f.ret.list[1]) >= needed

\* A list was returned after at least one elimination.
C3_Witness ==
    \E i \in DOMAIN stack :
      /\ stack[i].pc = "done" /\ stack[i].ret.kind = "list"
      /\ stack[i].round >= 2
      /\ stack[i].n >= 5

Reverse(s) == [i \in 1..Len(s) |-> s[Len(s) + 1 - i]]

\* The lines of ballots [A,B,C] x2, [B,A,C] x2, [C,A,B] x1.
ExampleLines ==
    <<<<1, 2, 3>>, <<1, 2, 3>>, <<2, 1, 3>>, <<2, 1, 3>>, <<2, 3, 1>>>>

\* C4: a returned list is the winner followed by the eliminated titles, the
\* last eliminated first; no title is in it twice; its length is the number
\* of rounds; the example election returns [A, C].
C4_ResultIsWinnerThenEliminatedReversed ==
    /\ \A i \in DOMAIN stack :
         LET f == stack[i]
         IN  (f.pc = "done" /\ f.ret.kind = "list") =>
               /\ Len(f.ret.list) = f.round
               /\ Tail(f.ret.list) = Reverse(f.eliminated)
               /\ FirstChoices(f.votes, Head(f.ret.list))
                    >= (BallotsPassed(i) \div 2) + 1
               /\ Cardinality({f.ret.list[j] : j \in 1..Len(f.ret.list)})
                    = Len(f.ret.list)
               /\ \A j \in 1..Len(f.eliminated) :
                    f.eliminated[j] \notin TitlesOn(f.votes)
    /\ (lines = ExampleLines /\ Finished) => Outcome = Some(<<1, 3>>)

\* The example election is over.
C4_Witness ==
    /\ lines = ExampleLines
    /\ Finished
    /\ Outcome.kind = "list"
    /\ Len(Outcome.list) = 2

\* The titles with a first-choice vote, and those of them with the fewest.
Tallied(votes) == {k \in TitlesOn(votes) : FirstChoices(votes, k) >= 1}
LowestTallied(votes) ==
    {k \in Tallied(votes) :
       \A j \in Tallied(votes) : FirstChoices(votes, k) <= FirstChoices(votes, j)}
NoMajorityIn(votes, n) ==
    \A k \in Tallied(votes) : FirstChoices(votes, k) < (n \div 2) + 1

\* A reckless top-level call runs alone (it is at a round or has returned,
\* never in a loop of sub-elections), never exits, has eliminated one more
\* of the titles in each round it has left, and returns a list.
RecklessRunReturnsList ==
    /\ ~exited
    /\ Len(stack) = 1
    /\ stack[1].pc \in {"round", "done"}
    /\ stack[1].round = Len(stack[1].eliminated) + 1
    /\ Len(stack[1].eliminated) + Cardinality(TitlesOn(stack[1].votes))
         = Len(titles)
    /\ stack[1].pc = "done" => stack[1].ret.kind = "list"

\* C5 as claimed: with reckless=True, one vote or more (each a full ranking
\* of the titles) and any recursion_limit, instant_runoff ends with a
\* results list, never with None, and calls no sub-election.
C5_RecklessAlwaysReturnsList ==
    (reckless /\ Len(lines) >= 1) => RecklessRunReturnsList

\* C5 as amended: the same, for one title or more.
C5_RecklessReturnsListGivenATitle ==
    (reckless /\ Len(lines) >= 1 /\ Len(titles) >= 1) => RecklessRunReturnsList

\* A reckless call with a negative recursion_limit broke a tie and returned.
C5_Witness ==
    /\ reckless
    /\ stack[1].recursion_limit < 0
    /\ stack[1].pc = "done"
    /\ stack[1].ret.kind = "list"
    /\ Len(stack[1].eliminated) >= 2
    /\ stack[1].shared_min

\* C6: in deterministic mode with recursion_limit = 0, a round without a
\* majority in which two or more titles share the lowest tally returns None
\* in that very step: nobody is eliminated and no sub-election is called.
C6_TieAtLimitZeroFailsAtOnce ==
    [][(/\ AtRound
        /\ ~reckless
        /\ Top.recursion_limit = 0
        /\ NoMajorityIn(Top.votes, BallotsPassed(Len(stack)))
        /\ Cardinality(LowestTallied(Top.votes)) >= 2)
       => (/\ ~exited'
           /\ Len(stack') = Len(stack)
           /\ \A i \in 1..(Len(stack) - 1) : stack'[i] = stack[i]
           /\ stack'[Len(stack)].pc = "done"
           /\ stack'[Len(stack)].ret = NoResult
           /\ stack'[Len(stack)].votes = Top.votes
           /\ stack'[Len(stack)].results = Top.results
           /\ stack'[Len(stack)].round = Top.round)]_vars

\* A top-level call with recursion_limit 0 returned None from a tie.
C6_Witness ==
    /\ ~reckless
    /\ Len(stack) = 1
    /\ Top.recursion_limit = 0
    /\ Top.pc = "done"
    /\ Top.ret = NoResult
    /\ Cardinality(LowestTallied(Top.votes)) >= 2

\* The winner of the sub-election frame f would run without the title.
SubWinner(f, title) ==
    ThisSubResult(instant_runoff(votes_prime(f.votes, title),
                                 f.recursion_limit - 1, reckless))

\* Two of the tied titles of frame f have sub-elections that succeed with
\* different winners.
SubElectionsDisagree(f) ==
    \E x, y \in LowestTallied(f.votes) :
      /\ SubWinner(f, x) # None
      /\ SubWinner(f, y) # None
      /\ SubWinner(f, x) # SubWinner(f, y)

\* C7: in deterministic mode, when two tied titles of a round have
\* sub-elections that succeed with different winners, the for loop ends
\* with no sub_result and the invocation returns None, wherever the two
\* are among the tied and whatever the other sub-elections yield.
C7_DisagreeingSubElectionsFail ==
    (/\ ~exited
     /\ ~reckless
     /\ Top.pc \in {"after", "done"}
     /\ Len(Top.losers) >= 2
     /\ Top.recursion_limit > 0
     /\ SubElectionsDisagree(Top))
    => /\ Top.pc = "after" => Top.sub_result = None
       /\ Top.pc = "done" => Top.ret = NoResult

\* A loop of three sub-elections ended: the first failed, two disagree.
C7_Witness ==
    /\ ~exited
    /\ ~reckless
    /\ Top.pc = "after"
    /\ Len(Top.losers) >= 3
    /\ SubWinner(Top, Top.losers[1]) = None
    /\ SubElectionsDisagree(Top)

\* The votes of round k + 1 of the top-level call: the votes read, without
\* the titles eliminated in the first k rounds.
RECURSIVE WithoutFirst(_, _, _)
WithoutFirst(votes, eliminated, k) ==
    IF k = 0 THEN votes
    ELSE RemoveAll(WithoutFirst(votes, eliminated, k - 1), eliminated[k])

\* No round of the finished top-level call had two or more titles with the
\* lowest tally.
NoRoundSharesMinimum ==
    \A k \in 0..Len(stack[1].eliminated) :
      Cardinality(LowestTallied(
          WithoutFirst(ReadVotes(titles, lines), stack[1].eliminated, k))) <= 1

\* No line gives two titles the same rank.
RanksDistinct ==
    \A v \in 1..Len(lines) :
      \A i, j \in 1..Len(lines[v]) : i # j => lines[v][i] # lines[v][j]

\* The votes read from the columns in the order q and the lines in the
\* order p.
Permuted(q, p) ==
    ReadVotes([i \in 1..Len(titles) |-> titles[q[i]]],
              [v \in 1..Len(lines) |->
                 [i \in 1..Len(titles) |-> lines[p[v]][q[i]]]])

\* The outcome is that of the election in either mode with any
\* recursion_limit; so the orders are compared once per election, in its
\* deterministic run with the largest recursion_limit: there the outcome is
\* that of every order of the lines in either mode with any recursion_limit,
\* and of every order of the columns likewise.
SameForEveryOrder ==
    LET id_q == [i \in 1..Len(titles) |-> i]
        id_p == [v \in 1..Len(lines) |-> v]
    IN  /\ \A lim \in Limits, r \in BOOLEAN :
             instant_runoff(ReadVotes(titles, lines), lim, r) = Outcome
        /\ (stack[1].recursion_limit = MaxLimit /\ ~reckless) =>
             \A lim \in Limits, r \in BOOLEAN :
               /\ \A p \in Perms(1..Len(lines)) :
                    instant_runoff(Permuted(id_q, p), lim, r) = Outcome
               /\ \A q \in Perms(1..Len(titles)) :
                    instant_runoff(Permuted(q, id_p), lim, r) = Outcome

\* C8 as claimed: an election no round of which has two or more titles
\* sharing the lowest tally has the same result for every order of the
\* ballots and every order of the columns, in both modes and for every
\* recursion_limit.
C8_UntiedResultIgnoresOrders ==
    (Finished /\ NoRoundSharesMinimum) => SameForEveryOrder

\* C8 as amended: the same, for lines that give no two titles the same rank.
C8_UntiedRankedResultIgnoresOrders ==
    (Finished /\ NoRoundSharesMinimum /\ RanksDistinct) => SameForEveryOrder

\* An untied election of five differing votes on three titles or more ended
\* with a list after an elimination.
C8_Witness ==
    /\ Finished
    /\ NoRoundSharesMinimum
    /\ RanksDistinct
    /\ Len(lines) = 5
    /\ Len(titles) >= 3
    /\ \E v \in 1..Len(lines) : lines[v] # lines[1]
    /\ Outcome.kind = "list"
    /\ Len(Outcome.list) >= 2

\* The title is the first choice of more than half of the votes read.
StrictMajority(c) ==
    2 * FirstChoices(ReadVotes(titles, lines), c) > Len(lines)

\* C9: when a title is the first choice of more than n/2 of the n votes,
\* the top-level call, in either mode and with any recursion_limit, stays in
\* round 1, calls no sub-election, eliminates nobody, leaves every vote's
\* preferences as read, and returns the list of that title alone.
C9_StrictMajorityWinsRoundOne ==
    \A c \in {titles[i] : i \in 1..Len(titles)} :
      StrictMajority(c) =>
        /\ ~exited
        /\ Len(stack) = 1
        /\ stack[1].pc \in {"round", "done"}
        /\ stack[1].round = 1
        /\ stack[1].eliminated = <<>>
        /\ stack[1].votes = ReadVotes(titles, lines)
        /\ stack[1].pc = "done" => stack[1].ret = Some(<<c>>)

\* A deterministic call with recursion_limit 0 returned the title that three
\* of five votes put first, the first vote not among them.
C9_Witness ==
    /\ ~reckless
    /\ Len(stack) = 1
    /\ stack[1].recursion_limit = 0
    /\ stack[1].pc = "done"
    /\ Len(lines) = 5
    /\ \E c \in {titles[i] : i \in 1..Len(titles)} :
         /\ FirstChoices(ReadVotes(titles, lines), c) = 3
         /\ first_choice(ReadVotes(titles, lines)[1]) # c
         /\ stack[1].ret = Some(<<c>>)

\* The votes handed to the invocation of frame i: those read for the
\* top-level call, the votes_prime of the caller's running sub-election for
\* the others.
CallVotes(i) ==
    IF i = 1 THEN ReadVotes(titles, lines)
    ELSE votes_prime(stack[i - 1].votes, stack[i - 1].losers[stack[i - 1].idx])

\* The round counter of every invocation is at most the number of distinct
\* titles on the votes it was handed.
RoundsWithinTitles ==
    \A i \in DOMAIN stack :
      stack[i].round <= Cardinality(TitlesOn(CallVotes(i)))

\* C10 as claimed: for one vote or more, each a full ranking of the same C
\* titles, no invocation (top-level or sub-election, either mode) has its
\* round counter above the number of distinct titles on its votes.
C10_RoundsAtMostCandidates ==
    Len(lines) >= 1 => RoundsWithinTitles

\* C10 as amended: the same, for one title or more.
C10_RoundsAtMostCandidatesGivenATitle ==
    (Len(lines) >= 1 /\ Len(titles) >= 1) => RoundsWithinTitles

\* A call returned from its last possible round: it has eliminated all
\* but one of three titles or more.
C10_Witness ==
    /\ Len(stack) = 1
    /\ Top.pc = "done"
    /\ Top.ret.kind = "list"
    /\ Top.round >= 3
    /\ Top.round = Cardinality(TitlesOn(CallVotes(1)))

\* The titles of a sequence.
Elems(s) == {s[j] : j \in 1..Len(s)}

\* No title eliminated by the invocation of frame i is in its tally, on its
\* votes or on the votes of a sub-election running above it, and no vote of
\* the frame has a title twice.
EliminatedAreGone(stk, i) ==
    /\ \A e \in Elems(stk[i].eliminated) :
         /\ e \notin Elems(Keys(stk[i].tally))
         /\ \A j \in i..Len(stk) : e \notin TitlesOn(stk[j].votes)
    /\ \A v \in 1..Len(stk[i].votes) :
         Cardinality(Elems(stk[i].votes[v])) = Len(stk[i].votes[v])

\* C11: a title eliminated in an invocation is in no later tally of it, in
\* no vote's preferences of it and on no vote handed to a sub-election it
\* calls afterwards; no step gives a vote a title it did not have, and no
\* vote has a title twice.
C11_EliminatedNeverReturn ==
    [][/\ \A i \in DOMAIN stack : EliminatedAreGone(stack, i)
       /\ \A i \in DOMAIN stack' : EliminatedAreGone(stack', i)
       /\ \A i \in DOMAIN stack \cap DOMAIN stack' :
            \A v \in 1..Len(stack[i].votes) :
              Elems(stack'[i].votes[v]) \subseteq Elems(stack[i].votes[v])]_vars

\* A sub-election runs on behalf of a call that has eliminated a title, and
\* has eliminated one itself.
C11_Witness ==
    /\ Len(stack) >= 2
    /\ stack[1].eliminated # <<>>
    /\ Top.eliminated # <<>>
    /\ Top.pc = "round"

\* C12: while its sub-elections are built and run, at any depth, the lists
\* that the votes of a calling invocation are bound to hold what they held
\* when its tie-break started: dup and remove on the copies and the
\* eliminations of the sub-elections change none of them.
C12_SubElectionsLeaveCallerVotes ==
    \A i \in DOMAIN stack :
      /\ Deref(heap, stack[i].prefs) = stack[i].votes
      /\ stack[i].pc \in {"loop", "after"} =>
           Tally(Deref(heap, stack[i].prefs)) = stack[i].tally

\* The second sub-election of a call has eliminated a title and runs a
\* sub-election of its own.
C12_Witness ==
    /\ Len(stack) = 3
    /\ stack[2].eliminated # <<>>
    /\ stack[1].pc = "loop"
    /\ stack[1].idx >= 2

\* The column of a title.
ColumnOf(t) == CHOOSE i \in 1..Len(titles) : titles[i] = t

\* The preferences are the titles, each once, in ascending order of the
\* ranks, titles of one rank in the order of their columns.
SortedByRank(preferences, ranks) ==
    /\ Len(preferences) = Len(titles)
    /\ Elems(preferences) = Elems(titles)
    /\ \A a, b \in 1..Len(preferences) :
         a < b =>
           LET i == ColumnOf(preferences[a])
               j == ColumnOf(preferences[b])
           IN  \/ ranks[i] < ranks[j]
               \/ ranks[i] = ranks[j] /\ i < j

\* C13: the list that Vote.__init__ makes of the titles and the ranks of a
\* line (the first lists of the heap, one per line) is the titles in
\* ascending order of rank, titles of equal rank in column order.
C13_VoteSortsTitlesByRankStably ==
    \A v \in 1..Len(lines) : SortedByRank(heap[v], lines[v])

\* A line ranks the second and third of three titles equal and before the
\* first.
C13_Witness ==
    /\ Len(titles) = 3
    /\ \E v \in 1..Len(lines) :
         /\ lines[v][2] = lines[v][3]
         /\ lines[v][2] < lines[v][1]
         /\ heap[v] = <<titles[2], titles[3], titles[1]>>

\* The sequence s in the order q.
InOrder(s, q) == [i \in 1..Len(s) |-> s[q[i]]]

\* C14: in deterministic mode the verdict of a finished tie-break (the
\* winner the sub-elections agree on, or none) is the verdict of the for
\* loop of sub-elections run over the tied titles in any other order.
C14_TieBreakVerdictIgnoresOrder ==
    (~exited /\ ~reckless /\ Top.pc = "after") =>
      \A q \in Perms(1..Len(Top.losers)) :
        TieBreak(Top.votes, InOrder(Top.losers, q), 1, None,
                 Top.recursion_limit, reckless) = Top.sub_result

\* The top-level call has returned a results list or None.
Returned ==
    /\ ~exited
    /\ Len(stack) = 1
    /\ stack[1].pc = "done"
    /\ stack[1].ret.kind \in {"list", "None"}

\* C15: with one vote or more and one title or more, the top-level call,
\* and with it every sub-election it called, eventually returns a results
\* list or None, and the exit of line 166 is never reached.
C15_EveryCallReturns ==
    (Len(lines) >= 1 /\ Len(titles) >= 1) => (<>Returned /\ []~exited)

\* A deterministic call returned after sub-elections two deep.
C15_Witness ==
    /\ Returned
    /\ ~reckless
    /\ stack[1].recursion_limit = 2
    /\ stack[1].failed_sub
    /\ stack[1].eliminated # <<>>

\* C16: the frames above the top-level call are never more than its
\* recursion_limit; each sub-election has the recursion_limit of its caller
\* less one and the reckless flag of the call; an invocation that waits for
\* a sub-election or runs its loop has a recursion_limit above 0.
C16_DepthWithinRecursionLimit ==
    /\ Len(stack) - 1 <= IF stack[1].recursion_limit > 0
                         THEN stack[1].recursion_limit ELSE 0
    /\ \A i \in DOMAIN stack :
         /\ stack[i].recursion_limit = stack[1].recursion_limit - (i - 1)
         /\ stack[i].reckless = reckless
         /\ (i < Len(stack) \/ stack[i].pc \in {"loop", "after"}) =>
              stack[i].recursion_limit > 0

\* At the deepest nesting the limit allows, a sub-election met a tie and
\* returned None without calling another.
C16_Witness ==
    /\ Len(stack) = 3
    /\ stack[1].recursion_limit = 2
    /\ Top.recursion_limit = 0
    /\ Top.pc = "done"
    /\ Top.ret = NoResult
    /\ Len(Top.losers) >= 2

\* The running invocation eliminates a title in this step.
Eliminates ==
    /\ Len(stack') = Len(stack)
    /\ stack'[Len(stack)].round = Top.round + 1

\* C17: the title a round eliminates has the least number of first-choice
\* votes among the titles that have at least one, and has at least one
\* itself; when one title alone has the least, the round eliminates it
\* without a sub-election, and no invocation is in its loop of sub-elections.
C17_EliminatedHasLeastVotes ==
    [][/\ \A i \in DOMAIN stack :
            stack[i].pc \in {"loop", "after"} =>
              Cardinality(LowestTallied(stack[i].votes)) >= 2
       /\ Eliminates =>
            LET loser == stack'[Len(stack)].eliminated[Len(Top.eliminated) + 1]
            IN  /\ loser \in LowestTallied(Top.votes)
                /\ FirstChoices(Top.votes, loser) >= 1
                /\ loser \notin TitlesOn(stack'[Len(stack)].votes)
                /\ Cardinality(LowestTallied(Top.votes)) = 1 =>
                     /\ Top.pc = "round"
                     /\ Top.sub_winners = <<>>]_vars

\* A deterministic call has eliminated two titles, one of them after a
\* round of sub-elections on the titles that shared the least votes.
C17_Witness ==
    /\ ~reckless
    /\ stack[1].pc = "round"
    /\ Len(stack[1].eliminated) >= 2
    /\ stack[1].shared_min

\* C18: when the deterministic call has returned a list, a reckless call on
\* the same votes in the same order returns that list, whatever its
\* recursion_limit.
C18_RecklessAgreesWithDeterministicList ==
    (Finished /\ ~reckless /\ Outcome.kind = "list") =>
        \A limit \in Limits :
            instant_runoff(ReadVotes(titles, lines), limit, TRUE) = Outcome

\* A deterministic call returned a list after a round in which titles
\* shared the least votes.
C18_Witness ==
    /\ Finished
    /\ ~reckless
    /\ Outcome.kind = "list"
    /\ stack[1].shared_min
    /\ Len(Outcome.list) >= 3

\* C19: when the deterministic call with recursion_limit d has returned a
\* list, the deterministic call on the same votes with any larger
\* recursion_limit returns that list.
C19_LargerLimitKeepsList ==
    (Finished /\ ~reckless /\ Outcome.kind = "list") =>
        \A limit \in Limits :
            limit > stack[1].recursion_limit =>
                instant_runoff(ReadVotes(titles, lines), limit, FALSE) = Outcome

\* Two titles are left on the votes of frame f, each the first choice of
\* half of the n votes of its invocation.
TwoWayTie(f) ==
    /\ Cardinality(TitlesOn(f.votes)) = 2
    /\ \A k \in TitlesOn(f.votes) : 2 * FirstChoices(f.votes, k) = f.n

\* C20: a deterministic invocation with a recursion_limit of 0 or more that
\* is at a round with two titles left, each the first choice of n/2 of its
\* n votes, eliminates neither, does not exit, and returns None; with a
\* recursion_limit above 0 it runs the two sub-elections, which are won by
\* the other title each.
C20_TwoWayTieReturnsNone ==
    [][\A i \in DOMAIN stack :
         (/\ ~stack[i].reckless
          /\ stack[i].recursion_limit >= 0
          /\ TwoWayTie(stack[i]))
         => /\ ~exited'
            /\ stack[i].pc = "done" => stack[i].ret = NoResult
            /\ i \in DOMAIN stack' =>
                 /\ TwoWayTie(stack'[i])
                 /\ stack'[i].round = stack[i].round
                 /\ stack'[i].pc = "done" => stack'[i].ret = NoResult
                 /\ stack'[i].pc = "after" =>
                      /\ stack'[i].sub_result = None
                      /\ Len(stack'[i].sub_winners) = 2
                      /\ \A j \in 1..2 :
                           /\ stack'[i].sub_winners[j] # None
                           /\ stack'[i].sub_winners[j] # stack'[i].losers[j]]_vars

\* The top-level call eliminated a title, came to two titles with half of
\* the votes each, ran both sub-elections and returned None.
C20_Witness ==
    /\ ~reckless
    /\ Len(stack) = 1
    /\ stack[1].pc = "done"
    /\ stack[1].ret = NoResult
    /\ stack[1].recursion_limit >= 1
    /\ stack[1].round >= 2
    /\ stack[1].n = 4
    /\ TwoWayTie(stack[1])
    /\ Len(stack[1].sub_winners) = 2

=============================================================================
